---------------------------- MODULE Spec2Model ----------------------------
(***************************************************************************)
(* A model of src/poi_search.py: RouteBuilder.search, create_route,        *)
(* _optimize_order, calculate_stats, _expand_query_words and _distance.    *)
(*                                                                         *)
(* Text.  The program's strings are Russian.  They are written here in a   *)
(* one-letter-for-one-letter Latin transcription, so that length, equality *)
(* and the substring relation are those of the original strings:           *)
(*   а a  б b  в v  г g  д d  е e  ж x  з z  и i  й j  к k  л l  м m  н n  *)
(*   о o  п p  р r  с s  т t  у u  ф f  х h  ц c  ч q  ы y  ь '  я w       *)
(* and a capital letter is the capital of its transcription.               *)
(*                                                                         *)
(* Numbers.  The program computes in binary floating point.  The model     *)
(* computes in fixed point:                                                *)
(*   coordinates   in 1/10000 of a degree  (55.7525 is 557525),            *)
(*   distances     in metres               (radius_km = 50 is 50000 m),    *)
(*   ratings       in tenths               (4.8 is 48),                    *)
(*   scores        in 1/1000 of a point,                                   *)
(*   times         in 1/2000 of a minute,  hours in tenths of an hour.     *)
(***************************************************************************)
EXTENDS Integers, Sequences, FiniteSets, TLC

(***************************************************************************)
(* Bounds of the model.                                                    *)
(***************************************************************************)
\* longest catalog handed to search
MaxCatalog == 7
\* longest candidate list handed to create_route
MaxLen == 4
\* largest max_points handed to create_route
MaxPoints == 4
\* most groups in a generated synonym dictionary
MaxGroups == 2
\* longest token list handed to _expand_query_words
MaxWords == 2

(***************************************************************************)
(* Helpers on numbers, sets and sequences.                                 *)
(***************************************************************************)
Abs(n) == IF n < 0 THEN -n ELSE n

Max2(a, b) == IF b > a THEN b ELSE a

Range(s) == {s[i] : i \in 1..Len(s)}

RECURSIVE SetToSeq(_)
\* a list holding the members of S once each (Python: list(a_set))
SetToSeq(S) ==
    IF S = {} THEN <<>>
    ELSE LET e == CHOOSE e \in S : TRUE IN <<e>> \o SetToSeq(S \ {e})

RECURSIVE SeqsUpTo(_, _)
\* all lists of at most n members of S
SeqsUpTo(S, n) ==
    IF n = 0 THEN {<<>>}
    ELSE LET shorter == SeqsUpTo(S, n - 1)
         IN shorter \cup {Append(s, e) : s \in {t \in shorter : Len(t) = n - 1}, e \in S}

\* the lists of SeqsUpTo(S, n) that repeat no member
InjSeqsUpTo(S, n) ==
    {s \in SeqsUpTo(S, n) : \A i, j \in 1..Len(s) : i # j => s[i] # s[j]}

\* floor of the square root of n, for 0 <= n < 2^31, by bisection
RECURSIVE SqrtBetween(_, _, _)
SqrtBetween(n, lo, hi) ==
    IF lo >= hi THEN lo
    ELSE LET mid == (lo + hi + 1) \div 2
         IN IF mid * mid <= n THEN SqrtBetween(n, mid, hi)
            ELSE SqrtBetween(n, lo, mid - 1)

ISqrt(n) == SqrtBetween(n, 0, 46340)

(***************************************************************************)
(* Python's str operations, on TLA+ strings.                               *)
(***************************************************************************)
UpperLetters == "ABCDEFGHIJKLMNOPQRSTUVWXYZ"
LowerLetters == "abcdefghijklmnopqrstuvwxyz"

\* str.lower() of a one-character string
LowerChar(c) ==
    IF \E i \in 1..Len(UpperLetters) : SubSeq(UpperLetters, i, i) = c
    THEN LET i == CHOOSE i \in 1..Len(UpperLetters) : SubSeq(UpperLetters, i, i) = c
         IN SubSeq(LowerLetters, i, i)
    ELSE c

RECURSIVE Lower(_)
\* str.lower()
Lower(s) ==
    IF Len(s) = 0 THEN ""
    ELSE LowerChar(SubSeq(s, 1, 1)) \o Lower(SubSeq(s, 2, Len(s)))

\* Python's `w in t` for strings: w occurs in t as a substring
StrIn(w, t) ==
    \E i \in 1..(Len(t) - Len(w) + 1) : SubSeq(t, i, i + Len(w) - 1) = w

RECURSIVE SplitFrom(_, _, _)
\* str.split(): the maximal runs of non-blank characters, in order
SplitFrom(s, i, word) ==
    IF i > Len(s) THEN (IF word = "" THEN <<>> ELSE <<word>>)
    ELSE IF SubSeq(s, i, i) = " "
         THEN (IF word = "" THEN <<>> ELSE <<word>>) \o SplitFrom(s, i + 1, "")
         ELSE SplitFrom(s, i + 1, word \o SubSeq(s, i, i))

Split(s) == SplitFrom(s, 1, "")

RECURSIVE JoinSpace(_)
\* ' '.join(words)
JoinSpace(words) ==
    IF words = <<>> THEN ""
    ELSE IF Len(words) = 1 THEN words[1]
    ELSE words[1] \o " " \o JoinSpace(Tail(words))

(***************************************************************************)
(* POI and the data RouteBuilder.__init__ builds.                          *)
(***************************************************************************)
POI(id, name, latitude, longitude, poi_type, tags, rating, visit_time) ==
    [id |-> id, name |-> name, latitude |-> latitude, longitude |-> longitude,
     poi_type |-> poi_type, tags |-> tags, rating |-> rating,
     visit_time |-> visit_time]

\* _create_sample_data()
SampleData == <<
    POI(1, "Hram Vasiliw Blaxennogo", 557525, 376231, "church",
        <<"hram", "sobor", "staryj", "pravoslavnyj", "moskva">>, 48, 90),
    POI(2, "Novodeviqij monastyr'", 557260, 375563, "monastery",
        <<"monastyr'", "xenskij", "staryj", "istoriqeskij", "moskva">>, 47, 120),
    POI(3, "Uspenskij sobor Moskovskogo Kremlw", 557510, 376171, "church",
        <<"sobor", "kreml'", "staryj", "pravoslavnyj", "moskva">>, 49, 60),
    POI(4, "Cerkov' Vozneseniw v Kolomenskom", 556674, 376709, "church",
        <<"cerkov'", "drevnij", "pamwtnik", "kolomenskoe", "moskva">>, 45, 45),
    POI(5, "Savvino-Storoxevskij monastyr'", 557286, 368246, "monastery",
        <<"monastyr'", "muxskoj", "zvenigorod", "podmoskov'e">>, 46, 180),
    POI(6, "Hram Hrista Spasitelw", 557445, 376054, "church",
        <<"hram", "sobor", "kafedral'nyj", "moskva">>, 47, 75),
    POI(7, "Donskoj monastyr'", 557146, 376027, "monastery",
        <<"monastyr'", "nekropol'", "staryj", "moskva">>, 44, 90) >>

\* self.synonyms: the groups, in the dictionary's order
CodeSynonyms == <<
    [key |-> "cerkov'", words |-> <<"cerkov'", "hram", "sobor", "qasovnw">>],
    [key |-> "monastyr'", words |-> <<"monastyr'", "obitel'", "lavra">>],
    [key |-> "staryj", words |-> <<"staryj", "drevnij", "starinnyj", "istoriqeskij">>],
    [key |-> "moskva", words |-> <<"moskva", "moskovskij", "v moskve">>] >>

\* POIs beside the sample data, for the catalogs and candidate lists the
\* operations are tried on: two chapels of equal rating at equal distance
\* east and west of POI 1, and a museum at the place of POI 1
ExtraData == <<
    POI(8, "Qasovnw Zapadnaw", 557525, 376131, "church",
        <<"qasovnw", "moskva">>, 48, 15),
    POI(9, "Qasovnw Vostoqnaw", 557525, 376331, "church",
        <<"qasovnw", "moskva">>, 48, 100),
    POI(10, "Muzej", 557525, 376231, "museum",
        <<"muzej", "staryj">>, 50, 40) >>

(***************************************************************************)
(* RouteBuilder._distance                                                  *)
(***************************************************************************)
\* np.sqrt((lat1-lat2)**2 + (lon1-lon2)**2) * 111, in metres.  The square
\* root is taken to a quarter of a coordinate unit (about 3 m) when both
\* differences are below 0.8 of a degree, and to a hundredth of a degree
\* beyond that, which keeps every intermediate value below 2^31.
Distance(coord1, coord2) ==
    LET dlat == Abs(coord1[1] - coord2[1])
        dlon == Abs(coord1[2] - coord2[2])
    IN IF dlat <= 8000 /\ dlon <= 8000
       THEN (ISqrt(16 * (dlat * dlat + dlon * dlon)) * 111) \div 40
       ELSE ISqrt((dlat \div 100) * (dlat \div 100)
                  + (dlon \div 100) * (dlon \div 100)) * 1110

Coord(poi) == <<poi.latitude, poi.longitude>>

(***************************************************************************)
(* RouteBuilder._expand_query_words                                        *)
(***************************************************************************)
\* [s for s in synonyms if s != word]
OthersOf(words, word) == SelectSeq(words, LAMBDA s : s # word)

RECURSIVE SynonymsOf(_, _, _)
\* the inner loop over self.synonyms.items(), from group g on: what one
\* word makes `expanded` grow by
SynonymsOf(syn, word, g) ==
    IF g > Len(syn) THEN <<>>
    ELSE (IF word \in Range(syn[g].words) THEN OthersOf(syn[g].words, word)
          ELSE <<>>) \o SynonymsOf(syn, word, g + 1)

RECURSIVE ExpandedFromSynonymsOnly(_, _, _)
\* an outer loop that forgets expanded.append(word)
ExpandedFromSynonymsOnly(syn, query_words, i) ==
    IF i > Len(query_words) THEN <<>>
    ELSE SynonymsOf(syn, query_words[i], 1)
         \o ExpandedFromSynonymsOnly(syn, query_words, i + 1)

RECURSIVE ExpandedFrom(_, _, _)
\* the outer loop over query_words, from word i on: the list `expanded`
ExpandedFrom(syn, query_words, i) ==
    IF i > Len(query_words) THEN <<>>
    ELSE <<query_words[i]>> \o SynonymsOf(syn, query_words[i], 1)
         \o ExpandedFrom(syn, query_words, i + 1)

\* list(set(expanded)): each word once, in an order that carries no meaning
ExpandQueryWords(syn, query_words) ==
    SetToSeq(Range(ExpandedFrom(syn, query_words, 1)))

(***************************************************************************)
(* RouteBuilder.search                                                     *)
(***************************************************************************)
\* poi_text = f"{poi.name.lower()} {' '.join(poi.tags).lower()}"
PoiText(poi) == Lower(poi.name) \o " " \o Lower(JoinSpace(poi.tags))

\* a geofilter that takes the radius for twice what it is
OutOfRadiusTwice(dist, radius) == dist > 2 * radius

\* the geofilter's test `dist > radius_km`
OutOfRadius(dist, radius) == dist > radius

RECURSIVE WordScore(_, _, _, _)
\* the loop over expanded_words, from word i on: 2 points for a word of the
\* query found in the text, 1 point for a synonym found in it
WordScore(poi_text, expanded_words, query_words, i) ==
    IF i > Len(expanded_words) THEN 0
    ELSE (IF StrIn(expanded_words[i], poi_text)
          THEN (IF expanded_words[i] \in Range(query_words) THEN 2 ELSE 1)
          ELSE 0) + WordScore(poi_text, expanded_words, query_words, i + 1)

\* the bonus for a POI type the query mentions
TypeBonus(lowered, poi) ==
    (IF (\E t \in {"cerkov'", "hram", "sobor"} : StrIn(t, lowered))
        /\ poi.poi_type = "church" THEN 1 ELSE 0)
    + (IF StrIn("monastyr'", lowered) /\ poi.poi_type = "monastery" THEN 1 ELSE 0)

\* the points of the loop over expanded_words
TokenPoints(syn, query, poi) ==
    LET query_words == Split(Lower(query))
    IN WordScore(PoiText(poi), ExpandQueryWords(syn, query_words), query_words, 1)

\* `score` as it stands at the test `if score > 0`
Score(syn, query, poi) == TokenPoints(syn, query, poi) + TypeBonus(Lower(query), poi)

\* an admission test that lets a score of 0 through
QualifiesAtZero(score) == score >= 0

\* the test `if score > 0` that admits a POI to `results`
Qualifies(score) == score > 0

\* max(0, 1 - dist / radius_km) * 2, in 1/1000 of a point.  The geofilter
\* lets through only 0 <= dist <= radius_km; with radius_km = 0 the quotient
\* of the numpy floats is nan and max(0, nan) is 0.
DistanceScore(dist, radius) ==
    IF radius = 0 THEN 0
    ELSE Max2(0, ((radius - dist) * 2000) \div radius)

\* poi.rating / 5.0 * 2, in 1/1000 of a point
RatingScore(poi) == (poi.rating * 2000) \div 50

\* total_score = score + distance_score + rating_score
TotalScore(score, dist, radius, poi) ==
    score * 1000 + DistanceScore(dist, radius) + RatingScore(poi)

RECURSIVE Results(_, _, _, _, _, _)
\* the loop over self.pois, from POI i on: the list `results`
Results(catalog, syn, query, center, radius, i) ==
    IF i > Len(catalog) THEN <<>>
    ELSE LET poi == catalog[i]
             dist == Distance(center, Coord(poi))
             score == Score(syn, query, poi)
             rest == Results(catalog, syn, query, center, radius, i + 1)
         IN IF OutOfRadius(dist, radius) THEN rest
            ELSE IF Qualifies(score)
            THEN <<[poi |-> poi,
                    total_score |-> TotalScore(score, dist, radius, poi),
                    dist |-> dist]>> \o rest
            ELSE rest

\* a sort that puts x before the members of equal key
InsertPlaceBeforeEqual(sorted, x) ==
    IF \E k \in 1..Len(sorted) : sorted[k].total_score <= x.total_score
    THEN CHOOSE k \in 1..Len(sorted) :
            /\ sorted[k].total_score <= x.total_score
            /\ \A j \in 1..(k - 1) : sorted[j].total_score > x.total_score
    ELSE Len(sorted) + 1

\* where list.sort(key=total_score, reverse=True) puts x among the members
\* already in order: behind every member whose key is not smaller (the sort
\* is stable, and with reverse=True equal keys still keep their order)
InsertPlace(sorted, x) ==
    IF \E k \in 1..Len(sorted) : sorted[k].total_score < x.total_score
    THEN CHOOSE k \in 1..Len(sorted) :
            /\ sorted[k].total_score < x.total_score
            /\ \A j \in 1..(k - 1) : sorted[j].total_score >= x.total_score
    ELSE Len(sorted) + 1

InsertAt(s, k, x) == SubSeq(s, 1, k - 1) \o <<x>> \o SubSeq(s, k, Len(s))

RECURSIVE SortedPrefix(_, _)
\* results.sort(key=lambda x: x[1], reverse=True), the first n members
SortedPrefix(results, n) ==
    IF n = 0 THEN <<>>
    ELSE LET sorted == SortedPrefix(results, n - 1)
         IN InsertAt(sorted, InsertPlace(sorted, results[n]), results[n])

SortByRelevance(results) == SortedPrefix(results, Len(results))

\* [p[0] for p in results]
PoisOf(results) == [k \in 1..Len(results) |-> results[k].poi]

(***************************************************************************)
(* RouteBuilder.create_route and RouteBuilder._optimize_order              *)
(***************************************************************************)
\* Python's s[:n]
Slice(s, n) ==
    IF n >= 0 THEN SubSeq(s, 1, IF n < Len(s) THEN n ELSE Len(s))
    ELSE SubSeq(s, 1, Max2(Len(s) + n, 0))

\* types[poi.poi_type], which the loop sets to 0 when the type is new
TypeCount(types, t) == IF t \in DOMAIN types THEN types[t] ELSE 0

\* a second branch that fills slots only up to the cap
FillsSlotUnderCap(final_selected, max_points) ==
    Len(final_selected) < max_points \div 2

\* the second branch of the loop: elif len(final_selected) < max_points
FillsSlot(final_selected, max_points) == Len(final_selected) < max_points

RECURSIVE Diversified(_, _, _, _, _)
\* the loop over `selected`, from POI i on, with the counters `types` and
\* the list `final_selected` as they stand: the final `final_selected`
Diversified(selected, max_points, i, types, final_selected) ==
    IF i > Len(selected) THEN final_selected
    ELSE LET poi == selected[i]
             t == poi.poi_type
             seen == [u \in DOMAIN types \cup {t} |-> TypeCount(types, u)]
         IN IF seen[t] < max_points \div 2
            THEN Diversified(selected, max_points, i + 1,
                             [seen EXCEPT ![t] = @ + 1], Append(final_selected, poi))
            ELSE IF FillsSlot(final_selected, max_points)
            THEN Diversified(selected, max_points, i + 1, seen,
                             Append(final_selected, poi))
            ELSE Diversified(selected, max_points, i + 1, seen, final_selected)

\* steps 1 and 2 of create_route: `selected` as it stands at step 3
Selected(candidates, max_points) ==
    LET selected == Slice(candidates, max_points)
    IN IF Len(selected) > 2
       THEN Slice(Diversified(selected, max_points, 1, <<>>, <<>>), max_points)
       ELSE selected

\* max(pois, key=lambda p: p.rating): the first POI of the highest rating
MaxByRating(points) ==
    points[CHOOSE i \in 1..Len(points) :
              /\ \A j \in 1..Len(points) : points[j].rating <= points[i].rating
              /\ \A j \in 1..(i - 1) : points[j].rating < points[i].rating]

\* a filter that tells the start by its rating, not by its id
WithoutStartByRating(points, start) ==
    SelectSeq(points, LAMBDA p : p.rating # start.rating)

\* [p for p in pois if p.id != start.id]
WithoutStart(points, start) == SelectSeq(points, LAMBDA p : p.id # start.id)

\* a minimum that takes the last POI of the least distance
NearestLastOfTies(unvisited, last) ==
    unvisited[CHOOSE i \in 1..Len(unvisited) :
        /\ \A j \in 1..Len(unvisited) :
              Distance(Coord(last), Coord(unvisited[i]))
                 <= Distance(Coord(last), Coord(unvisited[j]))
        /\ \A j \in (i + 1)..Len(unvisited) :
              Distance(Coord(last), Coord(unvisited[i]))
                 < Distance(Coord(last), Coord(unvisited[j]))]

\* min(unvisited, key=distance to last): the first POI of the least distance
Nearest(unvisited, last) ==
    unvisited[CHOOSE i \in 1..Len(unvisited) :
        /\ \A j \in 1..Len(unvisited) :
              Distance(Coord(last), Coord(unvisited[i]))
                 <= Distance(Coord(last), Coord(unvisited[j]))
        /\ \A j \in 1..(i - 1) :
              Distance(Coord(last), Coord(unvisited[i]))
                 < Distance(Coord(last), Coord(unvisited[j]))]

\* list.remove(x): the list without its first member equal to x
Remove(s, x) ==
    LET i == CHOOSE i \in 1..Len(s) : s[i] = x /\ \A j \in 1..(i - 1) : s[j] # x
    IN SubSeq(s, 1, i - 1) \o SubSeq(s, i + 1, Len(s))

(***************************************************************************)
(* RouteBuilder.calculate_stats                                            *)
(***************************************************************************)
\* round(x, 1) of x = num / den: the nearest tenth, a tie going to the even
\* tenth, as Python rounds a float that holds the tie exactly; in tenths
RoundTenths(num, den) ==
    LET q == (num * 10) \div den
        twice == 2 * ((num * 10) % den)
    IN IF twice < den THEN q
       ELSE IF twice > den THEN q + 1
       ELSE IF q % 2 = 0 THEN q ELSE q + 1

RECURSIVE VisitTime(_)
\* sum(p.visit_time for p in route), in minutes
VisitTime(route) ==
    IF route = <<>> THEN 0 ELSE Head(route).visit_time + VisitTime(Tail(route))

RECURSIVE PathLength(_, _)
\* the loop over range(len(route)-1), from leg i on: `distance`, in metres
PathLength(route, i) ==
    IF i >= Len(route) THEN 0
    ELSE Distance(Coord(route[i]), Coord(route[i + 1])) + PathLength(route, i + 1)

\* dist / 40 * 60 summed over the legs: minutes of travel at 40 km/h, in
\* 1/2000 of a minute (a metre takes 3/2000 of a minute)
TravelTime(route) == 3 * PathLength(route, 1)

\* a total that leaves the travel out
TotalTimeVisitOnly(route) == 2000 * VisitTime(route)

\* total_time = travel_time + visit_time, in 1/2000 of a minute
TotalTime(route) == TravelTime(route) + 2000 * VisitTime(route)

\* the dictionary calculate_stats returns; {} for an empty route
CalculateStatsOf(route) ==
    IF route = <<>> THEN <<>>
    ELSE [points |-> Len(route),
          distance_km |-> RoundTenths(PathLength(route, 1), 1000),
          total_hours |-> RoundTenths(TotalTime(route), 120000),
          visit_hours |-> RoundTenths(VisitTime(route), 60),
          travel_hours |-> RoundTenths(TravelTime(route), 120000),
          types |-> {route[k].poi_type : k \in 1..Len(route)}]

(***************************************************************************)
(* The state: the RouteBuilder object, and the arguments, locals and       *)
(* results of the call in progress.                                        *)
(***************************************************************************)
VARIABLES
    pois,          \* self.pois, the catalog
    synonyms,      \* self.synonyms
    pc,            \* where the caller stands
    query,         \* search: its arguments ...
    center,
    radius_km,
    results,       \* ... its list `results`, sorted
    outcome,       \* ... and how the call ended: "returned" or "raised"
    found,         \* the list search returned, or the list given to create_route
    max_points,    \* create_route: its argument
    selected,      \* create_route: its list `selected` as step 3 finds it
    route,         \* the route, while it is built and once it is returned
    unvisited,     \* _optimize_order: its list `unvisited`
    stats,         \* what calculate_stats returned
    query_words,   \* _expand_query_words: its argument
    expanded,      \* what _expand_query_words returned
    reexpanded     \* what it returned when given `expanded`

vars == <<pois, synonyms, pc, query, center, radius_km, results, outcome, found,
          max_points, selected, route, unvisited, stats, query_words, expanded,
          reexpanded>>

searchVars == <<query, center, radius_km, results, outcome>>
routeVars == <<max_points, selected, route, unvisited, stats>>
expandVars == <<query_words, expanded, reexpanded>>

\* the empty dictionary {}
NoStats == <<>>

(***************************************************************************)
(* The inputs the operations are tried on.                                 *)
(***************************************************************************)
CatalogPool == SampleData \o ExtraData

\* the catalogs: every run of at most MaxCatalog consecutive POIs of the pool
Catalogs ==
    {<<>>} \cup
    UNION {{SubSeq(CatalogPool, i, j) :
               j \in {k \in i..Len(CatalogPool) : k - i + 1 <= MaxCatalog}} :
           i \in 1..Len(CatalogPool)}

\* the queries of main(), and four more
Queries ==
    {"starye cerkvi", "monastyri v Moskve", "hramy", "sobory i monastyri",
     "hram", "staryj sobor", "Lavra", "qasovnw"}

\* the center of main(), the place of POI 1, a latitude above 90 degrees and
\* a longitude below -180 degrees
Centers ==
    {<<557522, 376156>>, <<557525, 376231>>, <<910000, 376156>>,
     <<557522, -1810000>>}

\* radius_km, in metres: the radii of main(), 1 km, 0 and -1 km
Radii == {50000, 100000, 1000, 0, -1000}

\* the words generated dictionaries and token lists are made of
Tokens == {"hram", "sobor", "lavra"}

\* the groups of generated dictionaries: every non-empty set of tokens
Groups == {SetToSeq(S) : S \in (SUBSET Tokens) \ {{}}}

\* the keys of generated dictionaries, one to a group
Keys == <<"first", "second", "third", "fourth">>

\* the dictionaries: the program's own, and every list of at most MaxGroups
\* groups, a token in as many of them as it likes
Dictionaries ==
    {CodeSynonyms} \cup
    {[g \in 1..Len(d) |-> [key |-> Keys[g], words |-> d[g]]] :
        d \in SeqsUpTo(Groups, MaxGroups)}

\* the token lists: at most MaxWords tokens, or the word "staryj"
WordLists == SeqsUpTo(Tokens \cup {"staryj"}, MaxWords)

\* the POIs candidate lists are made of
RoutePool == {CatalogPool[k] : k \in {1, 2, 3, 6, 7, 8, 9}}

\* the candidate lists: at most MaxLen POIs, no POI twice
Candidates == InjSeqsUpTo(RoutePool, MaxLen)

MaxPointsRange == (-1)..MaxPoints

(***************************************************************************)
(* search(query, center, radius_km)                                        *)
(***************************************************************************)
Search ==
    /\ pc = "idle"
    /\ \E q \in Queries, c \in Centers, r \in Radii :
        /\ query' = q /\ center' = c /\ radius_km' = r
        /\ results' = SortByRelevance(Results(pois, synonyms, q, c, r, 1))
        /\ found' = PoisOf(results')
    /\ outcome' = "returned"
    /\ pc' = "found"
    /\ UNCHANGED <<pois, synonyms, routeVars, expandVars>>

(***************************************************************************)
(* create_route(found, max_points), up to the loop of _optimize_order      *)
(***************************************************************************)
\* `if not pois: return []`, steps 1 and 2, and step 3: _optimize_order is
\* called when len(selected) > 1, and returns its list as it is when
\* len(pois) <= 2; otherwise it picks the start and enters its loop
CreateRoute ==
    /\ pc = "found"
    /\ \E n \in MaxPointsRange :
        /\ max_points' = n
        /\ selected' = IF found = <<>> THEN <<>> ELSE Selected(found, n)
        /\ IF Len(selected') > 1 /\ ~(Len(selected') <= 2)
           THEN LET start == MaxByRating(selected')
                IN /\ route' = <<start>>
                   /\ unvisited' = WithoutStart(selected', start)
                   /\ pc' = "ordering"
           ELSE /\ route' = selected'
                /\ unvisited' = <<>>
                /\ pc' = "routed"
    /\ UNCHANGED <<pois, synonyms, searchVars, found, stats, expandVars>>

\* one turn of `while unvisited`
OptimizeStep ==
    /\ pc = "ordering"
    /\ unvisited # <<>>
    /\ LET next_poi == Nearest(unvisited, route[Len(route)])
       IN /\ route' = Append(route, next_poi)
          /\ unvisited' = Remove(unvisited, next_poi)
    /\ UNCHANGED <<pois, synonyms, pc, searchVars, found, max_points, selected,
                   stats, expandVars>>

\* the loop is left and the route returned
OptimizeReturn ==
    /\ pc = "ordering"
    /\ unvisited = <<>>
    /\ pc' = "routed"
    /\ UNCHANGED <<pois, synonyms, searchVars, found, routeVars, expandVars>>

(***************************************************************************)
(* calculate_stats(route)                                                  *)
(***************************************************************************)
CalculateStats ==
    /\ pc = "routed"
    /\ stats' = CalculateStatsOf(route)
    /\ pc' = "done"
    /\ UNCHANGED <<pois, synonyms, searchVars, found, max_points, selected,
                   route, unvisited, expandVars>>

(***************************************************************************)
(* _expand_query_words(query_words), and the same on its own result        *)
(***************************************************************************)
Expand ==
    /\ pc = "words"
    /\ expanded' = ExpandQueryWords(synonyms, query_words)
    /\ pc' = "expanded"
    /\ UNCHANGED <<pois, synonyms, searchVars, found, routeVars, query_words,
                   reexpanded>>

ExpandAgain ==
    /\ pc = "expanded"
    /\ reexpanded' = ExpandQueryWords(synonyms, expanded)
    /\ pc' = "reexpanded"
    /\ UNCHANGED <<pois, synonyms, searchVars, found, routeVars, query_words,
                   expanded>>

(***************************************************************************)
(* The specifications.                                                     *)
(***************************************************************************)
NoSearch ==
    /\ query = "" /\ center = <<0, 0>> /\ radius_km = 0
    /\ results = <<>> /\ outcome = "none"

NoRoute ==
    /\ max_points = 0 /\ selected = <<>> /\ route = <<>> /\ unvisited = <<>>
    /\ stats = NoStats

NoExpand == query_words = <<>> /\ expanded = <<>> /\ reexpanded = <<>>

\* search on a catalog
Init ==
    /\ pois \in Catalogs /\ synonyms = CodeSynonyms /\ pc = "idle"
    /\ found = <<>>
    /\ NoSearch /\ NoRoute /\ NoExpand

Next == Search

Spec == Init /\ [][Next]_vars

\* create_route on a candidate list, then calculate_stats on its route
InitRoute ==
    /\ pois = CatalogPool /\ synonyms = CodeSynonyms /\ pc = "found"
    /\ found \in Candidates
    /\ NoSearch /\ NoRoute /\ NoExpand

NextRoute == CreateRoute \/ OptimizeStep \/ OptimizeReturn \/ CalculateStats

SpecRoute == InitRoute /\ [][NextRoute]_vars

\* _expand_query_words on a dictionary and a token list, then on its result
InitExpand ==
    /\ pois = CatalogPool /\ synonyms \in Dictionaries /\ pc = "words"
    /\ found = <<>>
    /\ query_words \in WordLists /\ expanded = <<>> /\ reexpanded = <<>>
    /\ NoSearch /\ NoRoute

NextExpand == Expand \/ ExpandAgain

SpecExpand == InitExpand /\ [][NextExpand]_vars

(***************************************************************************)
(* The claims.                                                             *)
(***************************************************************************)
Returned == pc = "found"

\* the distance search computes for a POI
DistOf(poi) == Distance(center, Coord(poi))

\* C1: every POI search returns lies within the radius of the center: its
\* planar distance 111 * sqrt(dlat^2 + dlon^2) is at most radius_km
C1_WithinRadius ==
    Returned => \A k \in 1..Len(found) : DistOf(found[k]) <= radius_km

\* C1, its case: search returned POIs and left out a POI of positive score
\* that lies beyond the radius
C1_Witness ==
    /\ Returned /\ found # <<>>
    /\ \E k \in 1..Len(pois) :
          /\ Score(synonyms, query, pois[k]) > 0
          /\ DistOf(pois[k]) > radius_km
          /\ pois[k] \notin Range(found)

\* a radius above 0 and a center of the globe
ValidInput ==
    /\ radius_km > 0
    /\ center[1] >= -900000 /\ center[1] <= 900000
    /\ center[2] >= -1800000 /\ center[2] <= 1800000

\* C2 as stated (here for valid input alone): every POI search returns has
\* token points, that is, some word of the expanded query occurs in its text
C2_TokenMatchRequired ==
    (Returned /\ ValidInput)
        => \A k \in 1..Len(found) : TokenPoints(synonyms, query, found[k]) > 0

\* C2 as amended: every POI search returns has token points or the bonus
\* of its type
C2_MatchOrBonusRequired ==
    Returned =>
        \A k \in 1..Len(found) :
            \/ TokenPoints(synonyms, query, found[k]) > 0
            \/ TypeBonus(Lower(query), found[k]) > 0

\* C2, its case: search returned a POI that has the bonus and no token
\* points, and left out a POI within the radius that has neither
C2_Witness ==
    /\ Returned
    /\ \E k \in 1..Len(found) : TokenPoints(synonyms, query, found[k]) = 0
    /\ \E k \in 1..Len(pois) :
          /\ DistOf(pois[k]) <= radius_km
          /\ Score(synonyms, query, pois[k]) = 0
          /\ pois[k] \notin Range(found)

\* the total score of a POI: its points, its distance score, its rating score
TotalOf(poi) ==
    TotalScore(Score(synonyms, query, poi), DistOf(poi), radius_km, poi)

\* the place of a POI in the catalog
CatalogPlace(poi) == CHOOSE k \in 1..Len(pois) : pois[k] = poi

\* C3: the list search returns is in order of non-increasing total score,
\* and POIs of equal total score are in the order of the catalog
C3_RankedStable ==
    Returned =>
        LET total == [k \in 1..Len(found) |-> TotalOf(found[k])]
        IN \A i, j \in 1..Len(found) :
              i < j =>
                 /\ total[i] >= total[j]
                 /\ total[i] = total[j]
                       => CatalogPlace(found[i]) < CatalogPlace(found[j])

\* C3, its case: search returned two POIs of equal total score, and the sort
\* moved a POI ahead of one that precedes it in the catalog
C3_Witness ==
    /\ Returned
    /\ \E i, j \in 1..Len(found) : i < j /\ TotalOf(found[i]) = TotalOf(found[j])
    /\ \E i, j \in 1..Len(found) :
          i < j /\ CatalogPlace(found[i]) > CatalogPlace(found[j])

\* C8 as stated: a search with radius_km <= 0, or with a latitude outside
\* [-90, 90] or a longitude outside [-180, 180], ends in an error
C8_InvalidInputRaises ==
    (Returned /\ ~ValidInput) => outcome = "raised"

Routed == pc \in {"routed", "done"}

\* how often x is in the list s
CountOf(s, x) == Cardinality({k \in 1..Len(s) : s[k] = x})

\* how many POIs of the list s are of type t
CountOfType(s, t) == Cardinality({k \in 1..Len(s) : s[k].poi_type = t})

\* C4 as stated (here for max_points >= 1 alone): a type is in the route
\* more than max(max_points // 2, 1) times only if the candidate list holds
\* fewer than max_points POIs of other types
C4_NoTypeDominates ==
    (Routed /\ max_points >= 1) =>
        \A t \in {route[k].poi_type : k \in 1..Len(route)} :
            CountOfType(route, t) > Max2(max_points \div 2, 1)
               => Len(found) - CountOfType(found, t) < max_points

IsPermutation(a, b) ==
    /\ Len(a) = Len(b)
    /\ \A x \in Range(a) \cup Range(b) : CountOf(a, x) = CountOf(b, x)

\* C5 (the candidate lists of SpecRoute hold no POI twice, so the ids of
\* `selected` are pairwise distinct): the greedy ordering returns a
\* permutation of the list it is given
\* (every POI once, none twice, none added, none lost), the loop ends with
\* `unvisited` empty, and at every turn of the loop the route and
\* `unvisited` together are a permutation of that list
C5_Permutation ==
    /\ Routed => IsPermutation(route, selected) /\ unvisited = <<>>
    /\ pc = "ordering" => IsPermutation(route \o unvisited, selected)

\* C5, its case: the loop has run over a list of at least three POIs, two of
\* them of the rating of the start, and returned them in another order
C5_Witness ==
    /\ pc = "routed" /\ Len(selected) >= 3 /\ route # selected
    /\ \E k \in 2..Len(route) : route[k].rating = route[1].rating

\* the place of a POI in the list s
PlaceIn(s, poi) == CHOOSE k \in 1..Len(s) : s[k] = poi

\* r is the greedy nearest-neighbour path over the POIs of s: it starts at
\* the POI of the highest rating, the earliest in s of these, and goes on to
\* the POI nearest to the one before, the earliest in s of these, among the
\* POIs not yet on the path
IsGreedyPath(r, s) ==
    /\ Len(r) = Len(s)
    /\ r[1] \in Range(s)
    /\ \A p \in Range(s) :
          /\ p.rating <= r[1].rating
          /\ p.rating = r[1].rating => PlaceIn(s, r[1]) <= PlaceIn(s, p)
    /\ \A k \in 2..Len(r) :
          LET left == Range(s) \ {r[j] : j \in 1..(k - 1)}
              d(p) == Distance(Coord(r[k - 1]), Coord(p))
          IN /\ r[k] \in left
             /\ \A p \in left :
                   /\ d(r[k]) <= d(p)
                   /\ d(r[k]) = d(p) => PlaceIn(s, r[k]) <= PlaceIn(s, p)

\* C9 as stated: whenever more than one POI is selected, two included, the
\* route is the greedy nearest-neighbour path over the selected POIs
C9_GreedyFromTwo ==
    (Routed /\ Len(selected) > 1) => IsGreedyPath(route, selected)

\* C9 as amended: whenever more than two POIs are selected the route is the
\* greedy nearest-neighbour path over them; two selected POIs, or fewer, are
\* returned as they are
C9_GreedyFromThree ==
    Routed =>
        /\ Len(selected) > 2 => IsGreedyPath(route, selected)
        /\ Len(selected) <= 2 => route = selected

\* C9, its case: a route over at least three POIs where two POIs not yet on
\* the path were equally near to the one before
C9_Witness ==
    /\ pc = "routed" /\ Len(selected) > 2
    /\ \E k \in 2..(Len(route) - 1) :
          \E j \in (k + 1)..Len(route) :
              Distance(Coord(route[k - 1]), Coord(route[k]))
                 = Distance(Coord(route[k - 1]), Coord(route[j]))

\* the first min(max_points, len(candidates)) candidates
TopOf(candidates, n) ==
    SubSeq(candidates, 1, IF n < Len(candidates) THEN n ELSE Len(candidates))

C6_WithinHalfTenth ==
    (pc = "done" /\ route # <<>>) =>
        2 * Abs(stats.visit_hours + stats.travel_hours - stats.total_hours) <= 1

\* C6 as amended: visit_hours + travel_hours is total_hours to within one
\* tenth of an hour
C6_WithinOneTenth ==
    (pc = "done" /\ route # <<>>) =>
        Abs(stats.visit_hours + stats.travel_hours - stats.total_hours) <= 1

\* C6, its case: the statistics of a route of several POIs whose two rounded
\* parts exceed the rounded total by a tenth
C6_Witness ==
    /\ pc = "done" /\ Len(route) > 1
    /\ stats.visit_hours + stats.travel_hours - stats.total_hours = 1

\* no word is in two groups of the dictionary
DisjointGroups(syn) ==
    \A g, h \in 1..Len(syn) :
        g # h => Range(syn[g].words) \cap Range(syn[h].words) = {}

\* C7 as stated: expanding an expanded token list gives the same set of
\* tokens, whatever the dictionary
C7_Idempotent ==
    pc = "reexpanded" => Range(reexpanded) = Range(expanded)

\* C7 as amended: expanding an expanded token list gives the same set of
\* tokens when no word is in two groups of the dictionary
C7_IdempotentWhenDisjoint ==
    (pc = "reexpanded" /\ DisjointGroups(synonyms))
        => Range(reexpanded) = Range(expanded)

\* C7, its case: a dictionary of several groups, no word in two of them, and
\* a token list the expansion added synonyms to
C7_Witness ==
    /\ pc = "reexpanded" /\ DisjointGroups(synonyms) /\ Len(synonyms) >= 2
    /\ Range(expanded) # Range(query_words)
    /\ Range(reexpanded) = Range(expanded)

=============================================================================
